---- MODULE Spec2Model ----
(***************************************************************************)
(* Model of @github-tools/sdk: the registry composer createGithubTools     *)
(* (approval resolution, preset resolution, filtering) and the tool        *)
(* factories it calls.                                                      *)
(*                                                                         *)
(* JavaScript values are tagged records, so that `undefined`, a string, an *)
(* array, a boolean and an object stay distinguishable:                    *)
(*   undefined, Str(s), Arr(seq), Bool(b), Obj(map).                       *)
(* A tool definition is the record handed to tool({...}): it has a field   *)
(* needsApproval exactly when the factory put one in.                      *)
(***************************************************************************)
EXTENDS Integers, Sequences, FiniteSets, TLC

\* ------------------------------------------------------------------ bounds
\* longest preset array passed as `preset`
MaxPresets == 2
\* most entries in a per-tool requireApproval object (the README's scenario
\* object, with two entries, is an input whatever this bound)
MaxEntries == 1
\* most Octokit clients constructed in one behaviour
MaxClients == 3
\* longest preset array in the behaviours that compare two calls
MaxTwicePresets == 1

\* the longest content written to a file, in UTF-16 code units
MaxContentLen == 2

\* the longest directory listing
MaxDirEntries == 2

\* most message rows in the database
MaxRows == 3

\* ------------------------------------------------------- JavaScript values
undefined == [kind |-> "undefined"]
null == [kind |-> "null"]
Str(s) == [kind |-> "string", name |-> s]
Arr(s) == [kind |-> "array", items |-> s]
Bool(b) == [kind |-> "boolean", flag |-> b]
Obj(m) == [kind |-> "object", entries |-> m]
SetOf(S) == [kind |-> "set", members |-> S]
TypeError == [kind |-> "TypeError"]
EmptyObject == [x \in {} |-> TRUE]

\* JavaScript truthiness, as used by `!preset` and `preset ? ... : null`
Truthy(v) ==
  CASE v.kind = "undefined" -> FALSE
    [] v.kind = "null" -> FALSE
    [] v.kind = "boolean" -> v.flag
    [] v.kind = "string" -> v.name # ""
    [] OTHER -> TRUE

Range(s) == {s[i] : i \in DOMAIN s}

RECURSIVE SeqsUpTo(_, _)
SeqsUpTo(S, n) ==
  IF n = 0 THEN {<<>>}
  ELSE LET shorter == SeqsUpTo(S, n - 1)
       IN shorter \cup {Append(s, x) : s \in {t \in shorter : Len(t) = n - 1}, x \in S}

PartialMaps(S, n) ==
  UNION {[D -> BOOLEAN] : D \in {E \in SUBSET S : Cardinality(E) <= n}}

\* -------------------------------------------------------------------- state
VARIABLES
  pc,         \* "idle", "returned" (createGithubTools returned), "threw", "picked"
  opts,       \* the GithubToolsOptions of the call that is visible in registry
  registry,   \* the tools object the caller holds
  allowed,    \* the value of `allowed` in the latest createGithubTools call
  clients,    \* number of Octokit clients constructed so far
  remembered, \* an earlier call (options and registry) kept for comparison
  exec,       \* the tool execution in progress: its input, position, locals,
              \* the remote calls it has issued and its outcome
  remote,     \* the state of the repository at the remote API
  db,         \* the chat application's database: chats and message rows
  req         \* the chat request being handled: its input, position and locals

vars == <<pc, opts, registry, allowed, clients, remembered, exec, remote, db, req>>

\* what composing a tools object leaves alone
execVars == <<exec, remote>>

\* what the tools and their callers outside the chat route leave alone
chatVars == <<db, req>>

\* ---------------------------------------------------------------- index.ts
GithubWriteToolName ==
  {"createOrUpdateFile", "createPullRequest", "mergePullRequest",
   "addPullRequestComment", "createIssue", "addIssueComment", "closeIssue"}

GithubToolPreset == {"code-review", "issue-triage", "repo-explorer", "maintainer"}

\* faulty variant: 'repo-explorer' begun as a copy of the first line of 'maintainer'
PRESET_TOOLS_explorerWrites ==
  [p \in GithubToolPreset |->
    CASE p = "code-review" ->
           <<"getPullRequest", "listPullRequests", "getFileContent", "listCommits", "getCommit",
             "getRepository", "listBranches", "searchCode",
             "addPullRequestComment">>
      [] p = "issue-triage" ->
           <<"listIssues", "getIssue", "createIssue", "addIssueComment", "closeIssue",
             "getRepository", "searchRepositories", "searchCode">>
      [] p = "repo-explorer" ->
           <<"getRepository", "listBranches", "getFileContent", "createOrUpdateFile",
             "listPullRequests", "getPullRequest",
             "listIssues", "getIssue",
             "listCommits", "getCommit",
             "searchCode", "searchRepositories">>
      [] p = "maintainer" ->
           <<"getRepository", "listBranches", "getFileContent", "createOrUpdateFile",
             "listPullRequests", "getPullRequest", "createPullRequest", "mergePullRequest",
             "addPullRequestComment",
             "listIssues", "getIssue", "createIssue", "addIssueComment", "closeIssue",
             "listCommits", "getCommit",
             "searchCode", "searchRepositories">>]

PRESET_TOOLS ==
  [p \in GithubToolPreset |->
    CASE p = "code-review" ->
           <<"getPullRequest", "listPullRequests", "getFileContent", "listCommits", "getCommit",
             "getRepository", "listBranches", "searchCode",
             "addPullRequestComment">>
      [] p = "issue-triage" ->
           <<"listIssues", "getIssue", "createIssue", "addIssueComment", "closeIssue",
             "getRepository", "searchRepositories", "searchCode">>
      [] p = "repo-explorer" ->
           <<"getRepository", "listBranches", "getFileContent",
             "listPullRequests", "getPullRequest",
             "listIssues", "getIssue",
             "listCommits", "getCommit",
             "searchCode", "searchRepositories">>
      [] p = "maintainer" ->
           <<"getRepository", "listBranches", "getFileContent", "createOrUpdateFile",
             "listPullRequests", "getPullRequest", "createPullRequest", "mergePullRequest",
             "addPullRequestComment",
             "listIssues", "getIssue", "createIssue", "addIssueComment", "closeIssue",
             "listCommits", "getCommit",
             "searchCode", "searchRepositories">>]

\* faulty variant: `if (config === true) return true`, so that `false` falls through
\* to the property lookup
resolveApproval_onlyTrue(toolName, config) ==
  IF config = Bool(TRUE) THEN TRUE
  ELSE IF config.kind = "object" /\ toolName \in DOMAIN config.entries
    THEN config.entries[toolName]
  ELSE TRUE

\* faulty variant: a tool without an entry needs approval only while no entry
\* of the mapping is false
resolveApproval_anyFalse(toolName, config) ==
  IF config.kind = "boolean" THEN config.flag
  ELSE IF toolName \in DOMAIN config.entries THEN config.entries[toolName]
  ELSE FALSE \notin {config.entries[x] : x \in DOMAIN config.entries}

\* faulty variant: `config[toolName] || true`
resolveApproval_orTrue(toolName, config) ==
  IF config.kind = "boolean" THEN config.flag
  ELSE IF toolName \in DOMAIN config.entries
    THEN (config.entries[toolName] \/ TRUE)
  ELSE TRUE

resolveApproval(toolName, config) ==
  IF config.kind = "boolean" THEN config.flag
  ELSE IF toolName \in DOMAIN config.entries THEN config.entries[toolName] ELSE TRUE

\* the loop `for (const p of presets) for (const t of PRESET_TOOLS[p]) tools.add(t)`;
\* PRESET_TOOLS[p] is undefined for an identifier outside the table, and
\* iterating undefined throws
RECURSIVE addPresetTools(_, _)
addPresetTools(presets, tools) ==
  IF presets = <<>> THEN SetOf(tools)
  ELSE IF Head(presets) \notin DOMAIN PRESET_TOOLS THEN TypeError
  ELSE addPresetTools(Tail(presets), tools \cup Range(PRESET_TOOLS[Head(presets)]))

\* faulty variant: only the first element of a preset array is used
resolvePresetTools_firstOnly(preset) ==
  IF ~Truthy(preset) THEN null
  ELSE LET presets == IF preset.kind = "array"
                        THEN SubSeq(preset.items, 1, IF preset.items = <<>> THEN 0 ELSE 1)
                        ELSE <<preset.name>>
       IN addPresetTools(presets, {})

\* faulty variant: `tools` hoisted out of the function, so it keeps the names added by
\* the previous call
resolvePresetTools_stale(preset) ==
  IF ~Truthy(preset) THEN null
  ELSE LET presets == IF preset.kind = "array" THEN preset.items ELSE <<preset.name>>
       IN addPresetTools(presets, IF allowed.kind = "set" THEN allowed.members ELSE {})

resolvePresetTools(preset) ==
  IF ~Truthy(preset) THEN null
  ELSE LET presets == IF preset.kind = "array" THEN preset.items ELSE <<preset.name>>
       IN addPresetTools(presets, {})

\* ---------------------------------------------------------------- client.ts
\* `new Octokit({ auth: token })`: a fresh object, told apart by the number of
\* clients constructed before it
createOctokit(token) == [auth |-> token, id |-> clients + 1]

\* ------------------------------------------------------ tools/repository.ts
\* the parameter pattern `{ needsApproval = true }: ToolOptions = {}`
needsApprovalOption(options) ==
  LET given == IF options = undefined THEN EmptyObject ELSE options
  IN IF "needsApproval" \in DOMAIN given THEN given.needsApproval ELSE TRUE

\* faulty variant: the factory constructs a client of its own
getRepository_ownClient(octokit) ==
  [execute |-> "getRepository", octokit |-> [auth |-> octokit.auth, id |-> octokit.id + 1]]

getRepository(octokit) == [execute |-> "getRepository", octokit |-> octokit]

listBranches(octokit) == [execute |-> "listBranches", octokit |-> octokit]

getFileContent(octokit) == [execute |-> "getFileContent", octokit |-> octokit]

createBranch(octokit, options) ==
  [execute |-> "createBranch", octokit |-> octokit,
   needsApproval |-> needsApprovalOption(options)]

forkRepository(octokit, options) ==
  [execute |-> "forkRepository", octokit |-> octokit,
   needsApproval |-> needsApprovalOption(options)]

createRepository(octokit, options) ==
  [execute |-> "createRepository", octokit |-> octokit,
   needsApproval |-> needsApprovalOption(options)]

\* faulty variant: needsApproval is destructured but not handed to tool({...})
createOrUpdateFile_noFlag(octokit, options) ==
  [execute |-> "createOrUpdateFile", octokit |-> octokit]

createOrUpdateFile(octokit, options) ==
  [execute |-> "createOrUpdateFile", octokit |-> octokit,
   needsApproval |-> needsApprovalOption(options)]

\* -------- tools/pull-requests.ts, tools/issues.ts, tools/search.ts, tools/commits.ts
\* Read-only factories take the client only; write factories take the client
\* and ToolOptions, as the composer calls them.
listPullRequests(octokit) == [execute |-> "listPullRequests", octokit |-> octokit]

getPullRequest(octokit) == [execute |-> "getPullRequest", octokit |-> octokit]

createPullRequest(octokit, options) ==
  [execute |-> "createPullRequest", octokit |-> octokit,
   needsApproval |-> needsApprovalOption(options)]

mergePullRequest(octokit, options) ==
  [execute |-> "mergePullRequest", octokit |-> octokit,
   needsApproval |-> needsApprovalOption(options)]

addPullRequestComment(octokit, options) ==
  [execute |-> "addPullRequestComment", octokit |-> octokit,
   needsApproval |-> needsApprovalOption(options)]

listIssues(octokit) == [execute |-> "listIssues", octokit |-> octokit]

getIssue(octokit) == [execute |-> "getIssue", octokit |-> octokit]

createIssue(octokit, options) ==
  [execute |-> "createIssue", octokit |-> octokit,
   needsApproval |-> needsApprovalOption(options)]

addIssueComment(octokit, options) ==
  [execute |-> "addIssueComment", octokit |-> octokit,
   needsApproval |-> needsApprovalOption(options)]

closeIssue(octokit, options) ==
  [execute |-> "closeIssue", octokit |-> octokit,
   needsApproval |-> needsApprovalOption(options)]

searchCode(octokit) == [execute |-> "searchCode", octokit |-> octokit]

searchRepositories(octokit) == [execute |-> "searchRepositories", octokit |-> octokit]

listCommits(octokit) == [execute |-> "listCommits", octokit |-> octokit]

getCommit(octokit) == [execute |-> "getCommit", octokit |-> octokit]

\* ------------------------------------------------------- createGithubTools
\* the default of the destructured parameter `requireApproval = true`
\* faulty variant: `requireApproval = false` as the parameter default
requireApprovalOrDefault_false(requireApproval) ==
  IF requireApproval = undefined THEN Bool(FALSE) ELSE requireApproval

requireApprovalOrDefault(requireApproval) ==
  IF requireApproval = undefined THEN Bool(TRUE) ELSE requireApproval

\* `const approval = (name) => ({ needsApproval: resolveApproval(name, requireApproval) })`
approval(name, requireApproval) ==
  [needsApproval |-> resolveApproval(name, requireApproval)]

\* faulty variant: the getCommit line is missing from the object literal
allTools_noGetCommit(octokit, requireApproval) ==
  ("getRepository" :> getRepository(octokit)) @@
  ("listBranches" :> listBranches(octokit)) @@
  ("getFileContent" :> getFileContent(octokit)) @@
  ("listPullRequests" :> listPullRequests(octokit)) @@
  ("getPullRequest" :> getPullRequest(octokit)) @@
  ("listIssues" :> listIssues(octokit)) @@
  ("getIssue" :> getIssue(octokit)) @@
  ("searchCode" :> searchCode(octokit)) @@
  ("searchRepositories" :> searchRepositories(octokit)) @@
  ("listCommits" :> listCommits(octokit)) @@
  ("createOrUpdateFile" :>
     createOrUpdateFile(octokit, approval("createOrUpdateFile", requireApproval))) @@
  ("createPullRequest" :>
     createPullRequest(octokit, approval("createPullRequest", requireApproval))) @@
  ("mergePullRequest" :>
     mergePullRequest(octokit, approval("mergePullRequest", requireApproval))) @@
  ("addPullRequestComment" :>
     addPullRequestComment(octokit, approval("addPullRequestComment", requireApproval))) @@
  ("createIssue" :> createIssue(octokit, approval("createIssue", requireApproval))) @@
  ("addIssueComment" :>
     addIssueComment(octokit, approval("addIssueComment", requireApproval))) @@
  ("closeIssue" :> closeIssue(octokit, approval("closeIssue", requireApproval)))

\* the object literal `allTools`
allTools(octokit, requireApproval) ==
  ("getRepository" :> getRepository(octokit)) @@
  ("listBranches" :> listBranches(octokit)) @@
  ("getFileContent" :> getFileContent(octokit)) @@
  ("listPullRequests" :> listPullRequests(octokit)) @@
  ("getPullRequest" :> getPullRequest(octokit)) @@
  ("listIssues" :> listIssues(octokit)) @@
  ("getIssue" :> getIssue(octokit)) @@
  ("searchCode" :> searchCode(octokit)) @@
  ("searchRepositories" :> searchRepositories(octokit)) @@
  ("listCommits" :> listCommits(octokit)) @@
  ("getCommit" :> getCommit(octokit)) @@
  ("createOrUpdateFile" :>
     createOrUpdateFile(octokit, approval("createOrUpdateFile", requireApproval))) @@
  ("createPullRequest" :>
     createPullRequest(octokit, approval("createPullRequest", requireApproval))) @@
  ("mergePullRequest" :>
     mergePullRequest(octokit, approval("mergePullRequest", requireApproval))) @@
  ("addPullRequestComment" :>
     addPullRequestComment(octokit, approval("addPullRequestComment", requireApproval))) @@
  ("createIssue" :> createIssue(octokit, approval("createIssue", requireApproval))) @@
  ("addIssueComment" :>
     addIssueComment(octokit, approval("addIssueComment", requireApproval))) @@
  ("closeIssue" :> closeIssue(octokit, approval("closeIssue", requireApproval)))

\* faulty variant: the filter keeps the names that are not allowed
filterAllowed_inverted(tools, allowedSet) ==
  [name \in {n \in DOMAIN tools : n \notin allowedSet.members} |-> tools[name]]

\* `Object.fromEntries(Object.entries(allTools).filter(([name]) => allowed.has(name)))`
filterAllowed(tools, allowedSet) ==
  [name \in {n \in DOMAIN tools : n \in allowedSet.members} |-> tools[name]]

\* faulty variant: `if (!allowed || allowed.size === 0) return allTools`
createGithubTools_emptyMeansAll(token, requireApprovalArg, preset) ==
  LET octokit == createOctokit(token)
      requireApproval == requireApprovalOrDefault(requireApprovalArg)
      allowedSet == IF Truthy(preset) THEN resolvePresetTools(preset) ELSE null
  IN IF allowedSet = TypeError
       THEN [octokit |-> octokit, allowed |-> allowed, threw |-> TRUE, value |-> EmptyObject]
     ELSE IF ~Truthy(allowedSet) \/ allowedSet.members = {}
       THEN [octokit |-> octokit, allowed |-> allowedSet, threw |-> FALSE,
             value |-> allTools(octokit, requireApproval)]
     ELSE [octokit |-> octokit, allowed |-> allowedSet, threw |-> FALSE,
           value |-> filterAllowed(allTools(octokit, requireApproval), allowedSet)]

\* The whole function.  The result carries the client, the value of `allowed`
\* and either the registry (`value`) or the exception that ended the call.
createGithubTools(token, requireApprovalArg, preset) ==
  LET octokit == createOctokit(token)
      requireApproval == requireApprovalOrDefault(requireApprovalArg)
      allowedSet == IF Truthy(preset) THEN resolvePresetTools(preset) ELSE null
  IN IF allowedSet = TypeError
       THEN [octokit |-> octokit, allowed |-> allowed, threw |-> TRUE, value |-> EmptyObject]
     ELSE IF ~Truthy(allowedSet)
       THEN [octokit |-> octokit, allowed |-> allowedSet, threw |-> FALSE,
             value |-> allTools(octokit, requireApproval)]
     ELSE [octokit |-> octokit, allowed |-> allowedSet, threw |-> FALSE,
           value |-> filterAllowed(allTools(octokit, requireApproval), allowedSet)]

\* ------------------------------------------------------------------ inputs
Tokens == {"ghp_a", "ghp_b"}

\* the token only reaches createOctokit: one token where calls are looked at
\* one by one, both where two calls are compared
OneToken == {"ghp_a"}

\* an identifier outside GithubToolPreset, which only the type checker rejects
UnknownPreset == "release-manager"

PresetIds == GithubToolPreset \cup {UnknownPreset}

\* the README's scenario object
ScenarioApproval == Obj(("mergePullRequest" :> TRUE) @@ ("createIssue" :> FALSE))

ApprovalConfigs ==
  {undefined, Bool(TRUE), Bool(FALSE), ScenarioApproval}
    \cup {Obj(m) : m \in PartialMaps(GithubWriteToolName, MaxEntries)}

\* arrays that make resolvePresetTools throw, at once and after one round
ThrowingArrays == {<<UnknownPreset>>, <<"code-review", UnknownPreset>>}

PresetSelectors ==
  {undefined} \cup {Str(p) : p \in PresetIds}
    \cup {Arr(s) : s \in SeqsUpTo(GithubToolPreset, MaxPresets) \cup ThrowingArrays}

TwiceConfigs == {undefined, Bool(FALSE), ScenarioApproval}

TwiceSelectors ==
  {undefined} \cup {Str(p) : p \in PresetIds}
    \cup {Arr(s) : s \in SeqsUpTo(GithubToolPreset, MaxTwicePresets)}

ReadFactories ==
  {"getRepository", "listBranches", "getFileContent", "listPullRequests", "getPullRequest",
   "listIssues", "getIssue", "searchCode", "searchRepositories", "listCommits", "getCommit"}

WriteFactories ==
  GithubWriteToolName \cup {"createBranch", "forkRepository", "createRepository"}

ToolOptionsValues == {undefined, [needsApproval |-> TRUE], [needsApproval |-> FALSE]}

\* a factory imported by name and called by the caller itself
callFactory(name, octokit, options) ==
  CASE name = "getRepository" -> getRepository(octokit)
    [] name = "listBranches" -> listBranches(octokit)
    [] name = "getFileContent" -> getFileContent(octokit)
    [] name = "listPullRequests" -> listPullRequests(octokit)
    [] name = "getPullRequest" -> getPullRequest(octokit)
    [] name = "listIssues" -> listIssues(octokit)
    [] name = "getIssue" -> getIssue(octokit)
    [] name = "searchCode" -> searchCode(octokit)
    [] name = "searchRepositories" -> searchRepositories(octokit)
    [] name = "listCommits" -> listCommits(octokit)
    [] name = "getCommit" -> getCommit(octokit)
    [] name = "createOrUpdateFile" -> createOrUpdateFile(octokit, options)
    [] name = "createPullRequest" -> createPullRequest(octokit, options)
    [] name = "mergePullRequest" -> mergePullRequest(octokit, options)
    [] name = "addPullRequestComment" -> addPullRequestComment(octokit, options)
    [] name = "createIssue" -> createIssue(octokit, options)
    [] name = "addIssueComment" -> addIssueComment(octokit, options)
    [] name = "closeIssue" -> closeIssue(octokit, options)
    [] name = "createBranch" -> createBranch(octokit, options)
    [] name = "forkRepository" -> forkRepository(octokit, options)
    [] name = "createRepository" -> createRepository(octokit, options)

\* ----------------------------------------------------------------- strings
\* A string that a tool reads character by character is a sequence of
\* one-character strings; Text(chars) is such a string as a JavaScript value.
Text(chars) == [kind |-> "text", chars |-> chars]

Rep(c, n) == [i \in 1..n |-> c]

\* `!s` for an optional string: undefined or the empty string
falsyText(v) == v = undefined \/ v.chars = <<>>

HexChars ==
  {"0", "1", "2", "3", "4", "5", "6", "7", "8", "9",
   "a", "b", "c", "d", "e", "f", "A", "B", "C", "D", "E", "F"}

ShaLength == 40

\* faulty variant: the pattern without its `i` flag
matchesSha_lowercase(chars) ==
  /\ Len(chars) = ShaLength
  /\ \A i \in 1..Len(chars) :
       chars[i] \in {"0", "1", "2", "3", "4", "5", "6", "7", "8", "9",
                     "a", "b", "c", "d", "e", "f"}

\* `sha.match(/^[0-9a-f]{40}$/i)`
matchesSha(chars) ==
  /\ Len(chars) = ShaLength
  /\ \A i \in 1..Len(chars) : chars[i] \in HexChars

\* --------------------------------------------------- Buffer (Node.js) codecs
\* File content is a JavaScript string: a sequence of UTF-16 code units.
IsHighSurrogate(u) == u >= 55296 /\ u <= 56319
IsLowSurrogate(u) == u >= 56320 /\ u <= 57343
ReplacementChar == 65533

\* the UTF-8 bytes of one code point
utf8OfCodePoint(cp) ==
  IF cp < 128 THEN <<cp>>
  ELSE IF cp < 2048 THEN <<192 + (cp \div 64), 128 + (cp % 64)>>
  ELSE IF cp < 65536
    THEN <<224 + (cp \div 4096), 128 + ((cp \div 64) % 64), 128 + (cp % 64)>>
  ELSE <<240 + (cp \div 262144), 128 + ((cp \div 4096) % 64),
         128 + ((cp \div 64) % 64), 128 + (cp % 64)>>

\* `Buffer.from(content)`: UTF-8, a surrogate pair is one code point and an
\* unpaired surrogate becomes U+FFFD
RECURSIVE utf8Encode(_)
utf8Encode(units) ==
  IF units = <<>> THEN <<>>
  ELSE LET u == Head(units)
       IN IF IsHighSurrogate(u) /\ Len(units) >= 2 /\ IsLowSurrogate(units[2])
            THEN utf8OfCodePoint(65536 + ((u - 55296) * 1024) + (units[2] - 56320))
                   \o utf8Encode(Tail(Tail(units)))
          ELSE IF IsHighSurrogate(u) \/ IsLowSurrogate(u)
            THEN utf8OfCodePoint(ReplacementChar) \o utf8Encode(Tail(units))
          ELSE utf8OfCodePoint(u) \o utf8Encode(Tail(units))

IsContinuation(bytes, i) == i <= Len(bytes) /\ bytes[i] >= 128 /\ bytes[i] <= 191

\* the UTF-16 code units of one decoded code point
unitsOfCodePoint(cp) ==
  IF cp >= 65536
    THEN <<55296 + ((cp - 65536) \div 1024), 56320 + ((cp - 65536) % 1024)>>
  ELSE IF IsHighSurrogate(cp) \/ IsLowSurrogate(cp) THEN <<ReplacementChar>>
  ELSE <<cp>>

\* `buffer.toString('utf-8')`: a byte that starts no valid sequence decodes
\* to U+FFFD
RECURSIVE utf8Decode(_)
utf8Decode(bytes) ==
  IF bytes = <<>> THEN <<>>
  ELSE LET b == bytes[1]
       IN IF b < 128 THEN <<b>> \o utf8Decode(Tail(bytes))
          ELSE IF b >= 194 /\ b <= 223 /\ IsContinuation(bytes, 2)
            THEN unitsOfCodePoint(((b - 192) * 64) + (bytes[2] - 128))
                   \o utf8Decode(SubSeq(bytes, 3, Len(bytes)))
          ELSE IF b >= 224 /\ b <= 239 /\ IsContinuation(bytes, 2) /\ IsContinuation(bytes, 3)
                    /\ ((b - 224) * 4096) + ((bytes[2] - 128) * 64) >= 2048
            THEN unitsOfCodePoint(((b - 224) * 4096) + ((bytes[2] - 128) * 64)
                                    + (bytes[3] - 128))
                   \o utf8Decode(SubSeq(bytes, 4, Len(bytes)))
          ELSE IF b >= 240 /\ b <= 244 /\ IsContinuation(bytes, 2) /\ IsContinuation(bytes, 3)
                    /\ IsContinuation(bytes, 4)
                    /\ ((b - 240) * 262144) + ((bytes[2] - 128) * 4096) >= 65536
            THEN unitsOfCodePoint(((b - 240) * 262144) + ((bytes[2] - 128) * 4096)
                                    + ((bytes[3] - 128) * 64) + (bytes[4] - 128))
                   \o utf8Decode(SubSeq(bytes, 5, Len(bytes)))
          ELSE <<ReplacementChar>> \o utf8Decode(Tail(bytes))

Base64Alphabet ==
  <<"A", "B", "C", "D", "E", "F", "G", "H", "I", "J", "K", "L", "M", "N", "O", "P",
    "Q", "R", "S", "T", "U", "V", "W", "X", "Y", "Z", "a", "b", "c", "d", "e", "f",
    "g", "h", "i", "j", "k", "l", "m", "n", "o", "p", "q", "r", "s", "t", "u", "v",
    "w", "x", "y", "z", "0", "1", "2", "3", "4", "5", "6", "7", "8", "9", "+", "/">>

Base64Pad == "="

base64Char(sextet) == Base64Alphabet[sextet + 1]

base64Index(c) == (CHOOSE i \in 1..Len(Base64Alphabet) : Base64Alphabet[i] = c) - 1

\* `buffer.toString('base64')`
RECURSIVE base64Encode(_)
base64Encode(bytes) ==
  IF bytes = <<>> THEN <<>>
  ELSE IF Len(bytes) = 1
    THEN <<base64Char(bytes[1] \div 4), base64Char((bytes[1] % 4) * 16),
           Base64Pad, Base64Pad>>
  ELSE IF Len(bytes) = 2
    THEN <<base64Char(bytes[1] \div 4),
           base64Char(((bytes[1] % 4) * 16) + (bytes[2] \div 16)),
           base64Char((bytes[2] % 16) * 4), Base64Pad>>
  ELSE <<base64Char(bytes[1] \div 4),
         base64Char(((bytes[1] % 4) * 16) + (bytes[2] \div 16)),
         base64Char(((bytes[2] % 16) * 4) + (bytes[3] \div 64)),
         base64Char(bytes[3] % 64)>>
         \o base64Encode(SubSeq(bytes, 4, Len(bytes)))

\* the characters of a base64 string up to its padding, line breaks skipped
RECURSIVE base64Payload(_)
base64Payload(chars) ==
  IF chars = <<>> \/ Head(chars) = Base64Pad THEN <<>>
  ELSE IF Head(chars) \in Range(Base64Alphabet)
    THEN <<Head(chars)>> \o base64Payload(Tail(chars))
  ELSE base64Payload(Tail(chars))

RECURSIVE base64Bytes(_)
base64Bytes(p) ==
  IF Len(p) < 2 THEN <<>>
  ELSE LET a == base64Index(p[1])
           b == base64Index(p[2])
       IN IF Len(p) = 2 THEN <<(a * 4) + (b \div 16)>>
          ELSE LET c == base64Index(p[3])
               IN IF Len(p) = 3
                    THEN <<(a * 4) + (b \div 16), ((b % 16) * 16) + (c \div 4)>>
                  ELSE <<(a * 4) + (b \div 16), ((b % 16) * 16) + (c \div 4),
                         ((c % 4) * 64) + base64Index(p[4])>>
                         \o base64Bytes(SubSeq(p, 5, Len(p)))

\* `Buffer.from(data.content, 'base64')`
base64Decode(chars) == base64Bytes(base64Payload(chars))

\* ------------------------------------------------------------ the remote API
\* Branch names and SHAs are character sequences.
BranchMain == <<"m", "a", "i", "n">>
BranchDev == <<"d", "e", "v">>
BranchFeat == <<"f", "e", "a", "t">>
BranchNope == <<"n", "o", "p", "e">>
ShaA == Rep("a", ShaLength)
ShaB == Rep("b", ShaLength)

HeadsPrefix == <<"h", "e", "a", "d", "s", "/">>
RefsHeadsPrefix == <<"r", "e", "f", "s", "/">> \o HeadsPrefix

\* the repository before anyone acts: two branches, no file written yet
InitialRemote ==
  [default_branch |-> BranchMain,
   heads |-> (BranchMain :> ShaA) @@ (BranchDev :> ShaB),
   file |-> undefined]

\* GET /repos/{owner}/{repo}/git/ref/{ref}: the branch a `heads/<name>` ref names
branchOfRef(ref) == SubSeq(ref, Len(HeadsPrefix) + 1, Len(ref))

refExists(ref) == branchOfRef(ref) \in DOMAIN remote.heads

\* ------------------------------------------ tools/repository.ts: execute
NoExec == [step |-> "none"]

\* createBranch: `let sha = from; if (!sha || !sha.match(/^[0-9a-f]{40}$/i))`
needsRefLookup(from) == falsyText(from) \/ ~matchesSha(from.chars)

\* createBranch: the remote call its execute function awaits first; the
\* template `heads/${from || (await octokit.rest.repos.get(...)).data.default_branch}`
\* is evaluated before git.getRef is called
createBranchFirstStep(from) ==
  IF ~needsRefLookup(from) THEN "git.createRef"
  ELSE IF falsyText(from) THEN "repos.get"
  ELSE "git.getRef"

\* faulty variant: "main" is taken for the default branch
createBranchLookupRef_main(from, defaultBranch) ==
  HeadsPrefix \o (IF falsyText(from) THEN BranchMain ELSE from.chars)

\* createBranch: the `ref` parameter of git.getRef
createBranchLookupRef(from, defaultBranch) ==
  HeadsPrefix \o (IF falsyText(from) THEN defaultBranch ELSE from.chars)

\* faulty variant: the head of the default branch as it is when the branch is
\* created
createBranchCreateRefParams_rereads(input, sha) ==
  [api |-> "git.createRef", ref |-> RefsHeadsPrefix \o input.branch,
   sha |-> remote.heads[remote.default_branch]]

\* createBranch: the parameters of git.createRef
createBranchCreateRefParams(input, sha) ==
  [api |-> "git.createRef", ref |-> RefsHeadsPrefix \o input.branch, sha |-> sha]

\* faulty variant: a node that is not a file is returned as the remote sent it
getFileContentResult_rawNode(data) ==
  IF data.kind = "array"
    THEN [type |-> "directory",
          entries |-> [i \in DOMAIN data.items |->
                         [name |-> data.items[i].name, type |-> data.items[i].type,
                          path |-> data.items[i].path]]]
  ELSE IF data.node.type # "file"
    THEN data.node
  ELSE [type |-> "file", path |-> data.node.path, sha |-> data.node.sha,
        size |-> data.node.size,
        content |-> utf8Decode(base64Decode(data.node.content))]

\* getFileContent: the value returned for a response `data`
getFileContentResult(data) ==
  IF data.kind = "array"
    THEN [type |-> "directory",
          entries |-> [i \in DOMAIN data.items |->
                         [name |-> data.items[i].name, type |-> data.items[i].type,
                          path |-> data.items[i].path]]]
  ELSE IF data.node.type # "file"
    THEN [type |-> data.node.type, path |-> data.node.path]
  ELSE [type |-> "file", path |-> data.node.path, sha |-> data.node.sha,
        size |-> data.node.size,
        content |-> utf8Decode(base64Decode(data.node.content))]

\* faulty variant: `Buffer.from(content, 'latin1').toString('base64')`
createOrUpdateFileParams_latin1(input) ==
  [api |-> "repos.createOrUpdateFileContents", path |-> input.path,
   content |-> base64Encode([i \in DOMAIN input.content |-> input.content[i] % 256])]

\* createOrUpdateFile: the parameters of repos.createOrUpdateFileContents
createOrUpdateFileParams(input) ==
  [api |-> "repos.createOrUpdateFileContents", path |-> input.path,
   content |-> base64Encode(utf8Encode(input.content))]

\* createRepository: `org ? createInOrg(...) : createForAuthenticatedUser(...)`
createRepositoryApi(input) ==
  IF Truthy(input.org) THEN "repos.createInOrg" ELSE "repos.createForAuthenticatedUser"

\* the one remote call of the execute functions of tools/repository.ts other
\* than createBranch
repositoryToolRequest(tool, input) ==
  CASE tool = "getRepository" -> [api |-> "repos.get"]
    [] tool = "listBranches" -> [api |-> "repos.listBranches"]
    [] tool = "getFileContent" -> [api |-> "repos.getContent", path |-> input.path]
    [] tool = "forkRepository" -> [api |-> "repos.createFork"]
    [] tool = "createRepository" -> [api |-> createRepositoryApi(input)]
    [] tool = "createOrUpdateFile" -> createOrUpdateFileParams(input)

RepositoryTools ==
  {"getRepository", "listBranches", "getFileContent", "createBranch", "forkRepository",
   "createRepository", "createOrUpdateFile"}

\* ----------------------------------------- the chat route: database, request
\* chats as the application's other routes left them: one of a signed-in user,
\* not yet titled, and one of an anonymous session, titled; no message stored
InitialDb ==
  [chats |-> ("c1" :> [userId |-> Str("u1"), title |-> null]) @@
             ("c2" :> [userId |-> Str("s2"), title |-> Str("Existing")]),
   messages |-> <<>>]

NoRequest == [step |-> "none"]

\* `session.user?.id || session.id`
sessionOwner(session) ==
  IF session.user # undefined /\ Truthy(session.user.id) THEN session.user.id
  ELSE session.id

\* faulty variant: the chat is looked up by its id alone
chatMatches_anyOwner(id, session) ==
  id \in DOMAIN db.chats

\* `and(eq(schema.chats.id, id), eq(schema.chats.userId, session.user?.id || session.id))`
chatMatches(id, session) ==
  /\ id \in DOMAIN db.chats
  /\ db.chats[id].userId = sessionOwner(session)

\* the ids (positions in the table) of the message rows of a chat
rowsOf(id) == {i \in DOMAIN db.messages : db.messages[i].chatId = id}

RECURSIVE ascending(_)
ascending(ids) ==
  IF ids = {} THEN <<>>
  ELSE LET top == CHOOSE i \in ids : \A j \in ids : j <= i
       IN Append(ascending(ids \ {top}), top)

descending(ids) ==
  LET up == ascending(ids) IN [i \in DOMAIN up |-> up[Len(up) + 1 - i]]

\* `with: { messages: true }` names no order: the rows of the chat come back in
\* the order of insertion or in the reverse of it
RowOrders(id) == {ascending(rowsOf(id)), descending(rowsOf(id))}

\* the value of `chat` for a found chat: its columns and its messages
chatWithMessages(id, order) ==
  [id |-> id, userId |-> db.chats[id].userId, title |-> db.chats[id].title,
   messages |-> [i \in DOMAIN order |->
                   [id |-> order[i], role |-> db.messages[order[i]].role,
                    parts |-> db.messages[order[i]].parts]]]

\* `messages[messages.length - 1]`
lastMessageOf(messages) ==
  IF Len(messages) = 0 THEN undefined ELSE messages[Len(messages)]

\* `const isContinuation = lastMessage?.role === 'assistant'`
isContinuationOf(messages) ==
  lastMessageOf(messages) # undefined /\ lastMessageOf(messages).role = "assistant"

\* `if (!chat.title && !isContinuation)`
needsTitle(chat, isContinuation) == ~Truthy(chat.title) /\ ~isContinuation

\* `if (lastMessage?.role === 'user' && messages.length > 1)`
insertsUserMessage(messages) ==
  /\ lastMessageOf(messages) # undefined
  /\ lastMessageOf(messages).role = "user"
  /\ Len(messages) > 1

\* faulty variant: `.shift()` in place of `.pop()`
lastDbAssistant_first(chatMessages) ==
  LET at == {i \in DOMAIN chatMessages : chatMessages[i].role = "assistant"}
  IN IF at = {} THEN undefined
     ELSE chatMessages[CHOOSE i \in at : \A j \in at : j >= i]

\* `chat.messages.filter(m => m.role === 'assistant').pop()`
lastDbAssistant(chatMessages) ==
  LET at == {i \in DOMAIN chatMessages : chatMessages[i].role = "assistant"}
  IN IF at = {} THEN undefined
     ELSE chatMessages[CHOOSE i \in at : \A j \in at : j <= i]

\* onFinish: the messages table after its one statement
onFinishMessages(chat, responseMessage, isContinuation) ==
  IF isContinuation
    THEN LET lastAssistant == lastDbAssistant(chat.messages)
         IN IF lastAssistant = undefined THEN db.messages
            ELSE [db.messages EXCEPT ![lastAssistant.id].parts = responseMessage.parts]
  ELSE Append(db.messages,
              [chatId |-> chat.id, role |-> responseMessage.role,
               parts |-> responseMessage.parts])

\* the step after the chat was found, and after the title was stored
stepAfterLookup(chat, messages) ==
  IF needsTitle(chat, isContinuationOf(messages)) THEN "generateText"
  ELSE IF insertsUserMessage(messages) THEN "insertUser"
  ELSE "stream"

stepAfterTitle(messages) ==
  IF insertsUserMessage(messages) THEN "insertUser" ELSE "stream"

\* ----------------------------------------------------------------- actions
NoCall == [kind |-> "none"]

Init ==
  /\ pc = "idle"
  /\ opts = NoCall
  /\ registry = EmptyObject
  /\ allowed = undefined
  /\ clients = 0
  /\ remembered = NoCall
  /\ exec = NoExec
  /\ remote = InitialRemote
  /\ db = InitialDb
  /\ req = NoRequest

\* faulty variant: the token is verified against the remote during composition
Call_verifiesToken(token, requireApproval, preset) ==
  /\ pc = "idle"
  /\ clients < MaxClients
  /\ LET r == createGithubTools(token, requireApproval, preset)
     IN /\ pc' = IF r.threw THEN "threw" ELSE "returned"
        /\ registry' = r.value
        /\ allowed' = r.allowed
  /\ opts' = [token |-> token, requireApproval |-> requireApproval, preset |-> preset]
  /\ clients' = clients + 1
  /\ exec' = [tool |-> "createGithubTools", octokit |-> createOctokit(token),
              input |-> undefined, step |-> "returned", sha |-> undefined,
              defaultBranch |-> undefined,
              issued |-> <<[api |-> "users.getAuthenticated", client |-> clients + 1]>>,
              response |-> undefined, result |-> undefined]
  /\ UNCHANGED <<remembered, remote, db, req>>

\* a caller runs createGithubTools({ token, requireApproval, preset })
Call(token, requireApproval, preset) ==
  /\ pc = "idle"
  /\ clients < MaxClients
  /\ LET r == createGithubTools(token, requireApproval, preset)
     IN /\ pc' = IF r.threw THEN "threw" ELSE "returned"
        /\ registry' = r.value
        /\ allowed' = r.allowed
  /\ opts' = [token |-> token, requireApproval |-> requireApproval, preset |-> preset]
  /\ clients' = clients + 1
  /\ UNCHANGED remembered
  /\ UNCHANGED execVars
  /\ UNCHANGED chatVars

\* a caller builds its own tools object: createOctokit(token), then one factory
CherryPick(token, name, options) ==
  /\ pc = "idle"
  /\ clients < MaxClients
  /\ pc' = "picked"
  /\ registry' = (name :> callFactory(name, createOctokit(token), options))
  /\ opts' = [token |-> token, factory |-> name, options |-> options]
  /\ clients' = clients + 1
  /\ UNCHANGED <<allowed, remembered>>
  /\ UNCHANGED execVars
  /\ UNCHANGED chatVars

\* the caller is done with the tools object (the chat handler builds one per
\* request and drops it with the request)
Discard ==
  /\ pc \in {"returned", "threw", "picked"}
  /\ pc' = "idle"
  /\ opts' = NoCall
  /\ registry' = EmptyObject
  /\ UNCHANGED <<allowed, clients, remembered>>
  /\ UNCHANGED execVars
  /\ UNCHANGED chatVars

\* what a caller can observe of a registry besides the client: its keys and
\* the approval flag of each write tool
flagsOf(reg) ==
  [t \in DOMAIN reg \cap GithubWriteToolName |-> reg[t].needsApproval]

\* the caller notes the arguments and the observable result of a call and
\* lets go of the tools object
Remember ==
  /\ pc = "returned"
  /\ remembered = NoCall
  /\ remembered' = [opts |-> opts, keys |-> DOMAIN registry, flags |-> flagsOf(registry)]
  /\ pc' = "idle"
  /\ opts' = NoCall
  /\ registry' = EmptyObject
  /\ UNCHANGED <<allowed, clients>>
  /\ UNCHANGED execVars
  /\ UNCHANGED chatVars

\* ---------------------------------------------------- actions: tool execution
\* a tool of the tools object is called: `execute(input)` starts, and stands
\* before its first remote call
startExecute(tool, input) ==
  [tool |-> tool.execute, octokit |-> tool.octokit, input |-> input,
   step |-> IF tool.execute = "createBranch" THEN createBranchFirstStep(input.from)
            ELSE "call",
   sha |-> IF tool.execute = "createBranch" THEN input.from ELSE undefined,
   defaultBranch |-> undefined, issued |-> <<>>, response |-> undefined,
   result |-> undefined]

Invoke(key, input) ==
  /\ pc \in {"returned", "picked"}
  /\ exec.step = "none"
  /\ key \in DOMAIN registry
  /\ exec' = startExecute(registry[key], input)
  /\ UNCHANGED <<pc, opts, registry, allowed, clients, remembered, remote, db, req>>

\* a request as the client handle of the execution sends it
sent(request) == [client |-> exec.octokit.id] @@ request

\* faulty variant: a rejected call is sent a second time before execute fails
threw_retries(request) ==
  [exec EXCEPT !.step = "threw",
               !.issued = Append(Append(@, sent(request)), sent(request)),
               !.result = [error |-> request.api]]

\* faulty variant: the rejection is caught and execute returns null
threw_swallowed(request) ==
  [exec EXCEPT !.step = "returned", !.issued = Append(@, sent(request)),
               !.result = null]

\* a rejected promise of the client leaves execute through the `await`
threw(request) ==
  [exec EXCEPT !.step = "threw", !.issued = Append(@, sent(request)),
               !.result = [error |-> request.api]]

\* createBranch: `(await octokit.rest.repos.get({ owner, repo })).data.default_branch`
CreateBranchReposGet(ok) ==
  /\ exec.step = "repos.get"
  /\ LET request == [api |-> "repos.get"]
     IN exec' = IF ok
                  THEN [exec EXCEPT !.step = "git.getRef",
                                    !.issued = Append(@, sent(request)),
                                    !.defaultBranch = remote.default_branch]
                  ELSE threw(request)
  /\ UNCHANGED <<pc, opts, registry, allowed, clients, remembered, remote, db, req>>

\* createBranch: `const { data: ref } = await octokit.rest.git.getRef(...)`,
\* `sha = ref.object.sha`; the remote answers 404 for a ref it does not have
CreateBranchGetRef(ok) ==
  /\ exec.step = "git.getRef"
  /\ LET request == [api |-> "git.getRef",
                     ref |-> createBranchLookupRef(exec.input.from, exec.defaultBranch)]
     IN exec' = IF ok /\ refExists(request.ref)
                  THEN [exec EXCEPT !.step = "git.createRef",
                                    !.issued = Append(@, sent(request)),
                                    !.sha = Text(remote.heads[branchOfRef(request.ref)])]
                  ELSE threw(request)
  /\ UNCHANGED <<pc, opts, registry, allowed, clients, remembered, remote, db, req>>

\* createBranch: `const { data } = await octokit.rest.git.createRef(...)` and
\* the return; the remote answers 422 for a branch it already has
CreateBranchCreateRef(ok) ==
  /\ exec.step = "git.createRef"
  /\ LET request == createBranchCreateRefParams(exec.input, exec.sha.chars)
         created == ok /\ exec.input.branch \notin DOMAIN remote.heads
     IN /\ exec' = IF created
                     THEN [exec EXCEPT !.step = "returned",
                                       !.issued = Append(@, sent(request)),
                                       !.result = [ref |-> request.ref, sha |-> request.sha]]
                     ELSE threw(request)
        /\ remote' = IF created
                       THEN [remote EXCEPT !.heads = @ @@ (exec.input.branch :> request.sha)]
                       ELSE remote
  /\ UNCHANGED <<pc, opts, registry, allowed, clients, remembered, db, req>>

\* getFileContent: `const { data } = await octokit.rest.repos.getContent(...)`
\* and the return; `data` is what the remote has at the path
ExecuteGetFileContent(ok, data) ==
  /\ exec.step = "call"
  /\ exec.tool = "getFileContent"
  /\ LET request == repositoryToolRequest(exec.tool, exec.input)
     IN exec' = IF ok
                  THEN [exec EXCEPT !.step = "returned",
                                    !.issued = Append(@, sent(request)),
                                    !.response = data,
                                    !.result = getFileContentResult(data)]
                  ELSE threw(request)
  /\ UNCHANGED <<pc, opts, registry, allowed, clients, remembered, remote, db, req>>

\* createOrUpdateFile: `await octokit.rest.repos.createOrUpdateFileContents(...)`
\* and the return; the remote keeps the content as it was transmitted
ExecuteCreateOrUpdateFile(ok) ==
  /\ exec.step = "call"
  /\ exec.tool = "createOrUpdateFile"
  /\ LET request == repositoryToolRequest(exec.tool, exec.input)
     IN /\ exec' = IF ok
                     THEN [exec EXCEPT !.step = "returned",
                                       !.issued = Append(@, sent(request)),
                                       !.result = [path |-> request.path]]
                     ELSE threw(request)
        /\ remote' = IF ok
                       THEN [remote EXCEPT !.file = [path |-> request.path,
                                                     content |-> request.content]]
                       ELSE remote
  /\ UNCHANGED <<pc, opts, registry, allowed, clients, remembered, db, req>>

\* getRepository, listBranches, forkRepository, createRepository: the one
\* awaited remote call and the return
ExecuteCall(ok) ==
  /\ exec.step = "call"
  /\ exec.tool \notin {"getFileContent", "createOrUpdateFile"}
  /\ LET request == repositoryToolRequest(exec.tool, exec.input)
     IN exec' = IF ok
                  THEN [exec EXCEPT !.step = "returned",
                                    !.issued = Append(@, sent(request)),
                                    !.result = [done |-> request.api]]
                  ELSE threw(request)
  /\ UNCHANGED <<pc, opts, registry, allowed, clients, remembered, remote, db, req>>

\* the caller of execute has its value or its failure
Finish ==
  /\ exec.step \in {"returned", "threw"}
  /\ exec' = NoExec
  /\ UNCHANGED <<pc, opts, registry, allowed, clients, remembered, remote, db, req>>

\* another actor of the repository changes its default branch
OtherActorSetsDefault(branch) ==
  /\ branch \in DOMAIN remote.heads
  /\ branch # remote.default_branch
  /\ remote' = [remote EXCEPT !.default_branch = branch]
  /\ UNCHANGED <<pc, opts, registry, allowed, clients, remembered, exec, db, req>>

\* another actor pushes to a branch
OtherActorPushes(branch, sha) ==
  /\ branch \in DOMAIN remote.heads
  /\ sha # remote.heads[branch]
  /\ remote' = [remote EXCEPT !.heads[branch] = sha]
  /\ UNCHANGED <<pc, opts, registry, allowed, clients, remembered, exec, db, req>>

\* ------------------------------------------------------- inputs of execution
BaseInput == [owner |-> "octo", repo |-> "demo"]

\* `from`: omitted, empty, a branch, a missing branch, a SHA in either case,
\* and near misses of the SHA pattern
FromValues ==
  {undefined, Text(<<>>), Text(BranchMain), Text(BranchDev), Text(BranchNope),
   Text(ShaA), Text(Rep("A", ShaLength)), Text(Rep("a", ShaLength - 1)),
   Text(Rep("a", ShaLength + 1)), Text(Rep("a", ShaLength - 1) \o <<"g">>)}

CreateBranchInputs == {[branch |-> BranchFeat, from |-> from] @@ BaseInput : from \in FromValues}

FilePath == "README.md"

\* UTF-16 code units: ASCII, a two-byte and a three-byte character, and the
\* two halves of a surrogate pair
ContentUnits == {65, 233, 8364, 55357, 56832}

Contents == SeqsUpTo(ContentUnits, MaxContentLen)

CreateOrUpdateFileInputs(contents) ==
  {[path |-> FilePath, content |-> c] @@ BaseInput : c \in contents}

ExecInputs(execute) ==
  CASE execute = "createBranch" -> CreateBranchInputs
    [] execute = "createRepository" ->
         {[org |-> org] @@ BaseInput : org \in {undefined, Str(""), Str("acme")}}
    [] execute = "getFileContent" -> {[path |-> FilePath] @@ BaseInput}
    [] execute = "createOrUpdateFile" -> CreateOrUpdateFileInputs({<<72, 105>>})
    [] execute \in {"getRepository", "listBranches", "forkRepository"} -> {BaseInput}

\* what repos.getContent can answer: the file as stored, a node that is not a
\* file, or a directory listing
fileNode(file) ==
  [kind |-> "node",
   node |-> [type |-> "file", name |-> file.path, path |-> file.path, sha |-> ShaB,
             size |-> Len(base64Decode(file.content)), content |-> file.content,
             encoding |-> "base64"]]

otherNode(type) ==
  [kind |-> "node",
   node |-> [type |-> type, name |-> "vendor", path |-> "vendor", sha |-> ShaA, size |-> 0]]

DirectoryEntries ==
  {[name |-> "a.md", type |-> "file", path |-> "docs/a.md", sha |-> ShaA, size |-> 3],
   [name |-> "img", type |-> "dir", path |-> "docs/img", sha |-> ShaB, size |-> 0]}

ContentResponses(listings) ==
  (IF remote.file = undefined THEN {} ELSE {fileNode(remote.file)})
    \cup {otherNode("symlink"), otherNode("submodule")}
    \cup {Arr(l) : l \in listings}

Listings == SeqsUpTo(DirectoryEntries, MaxDirEntries)

\* the guard is repeated ahead of the quantifiers so that it is decided once
CallAny ==
  /\ pc = "idle"
  /\ \E token \in OneToken, requireApproval \in ApprovalConfigs, preset \in PresetSelectors :
       Call(token, requireApproval, preset)

CherryPickAny ==
  /\ pc = "idle"
  /\ \E token \in Tokens :
       \/ \E name \in ReadFactories : CherryPick(token, name, undefined)
       \/ \E name \in WriteFactories, options \in ToolOptionsValues :
            CherryPick(token, name, options)

CallTwiceAny ==
  /\ pc = "idle"
  /\ \E token \in Tokens, requireApproval \in TwiceConfigs, preset \in TwiceSelectors :
       Call(token, requireApproval, preset)

Next == CallAny \/ CherryPickAny \/ Discard

Spec == Init /\ [][Next]_vars

NextTwice == CallTwiceAny \/ Remember \/ Discard

SpecTwice == Init /\ [][NextTwice]_vars

\* --- tools objects that are executed: the full one, a preset one, and each
\* factory of tools/repository.ts called by hand
CallForExec ==
  /\ pc = "idle"
  /\ \E token \in OneToken, requireApproval \in {undefined, Bool(FALSE), ScenarioApproval},
        preset \in {undefined, Str("repo-explorer"), Str(UnknownPreset)} :
       Call(token, requireApproval, preset)

CherryPickForExec ==
  /\ pc = "idle"
  /\ \E token \in OneToken, name \in RepositoryTools : CherryPick(token, name, undefined)

\* the tools object is dropped between executions
DiscardAfterExec ==
  /\ exec.step = "none"
  /\ Discard

\* the tools whose execute function is in tools/repository.ts
InvokeAny ==
  /\ exec.step = "none"
  /\ \E key \in DOMAIN registry \cap RepositoryTools :
       \E input \in ExecInputs(registry[key].execute) : Invoke(key, input)

GetFileContentAny ==
  /\ exec.step = "call"
  /\ \E ok \in BOOLEAN, data \in ContentResponses({<<>>}) :
       ExecuteGetFileContent(ok, data)

OtherActorAny ==
  \/ \E branch \in {BranchMain, BranchDev} : OtherActorSetsDefault(branch)
  \/ \E branch \in {BranchMain, BranchDev}, sha \in {ShaA, ShaB} : OtherActorPushes(branch, sha)

NextExec ==
  \/ CallForExec
  \/ CherryPickForExec
  \/ DiscardAfterExec
  \/ InvokeAny
  \/ \E ok \in BOOLEAN : CreateBranchReposGet(ok)
  \/ \E ok \in BOOLEAN : CreateBranchGetRef(ok)
  \/ \E ok \in BOOLEAN : CreateBranchCreateRef(ok)
  \/ GetFileContentAny
  \/ \E ok \in BOOLEAN : ExecuteCreateOrUpdateFile(ok)
  \/ \E ok \in BOOLEAN : ExecuteCall(ok)
  \/ Finish
  \/ OtherActorAny

SpecExec == Init /\ [][NextExec]_vars

\* --- one tools object, files written and read back
CallForFiles ==
  /\ pc = "idle"
  /\ \E token \in OneToken : Call(token, undefined, undefined)

InvokeFileTool ==
  /\ exec.step = "none"
  /\ \/ \E input \in CreateOrUpdateFileInputs(Contents) : Invoke("createOrUpdateFile", input)
     \/ \E input \in ExecInputs("getFileContent") : Invoke("getFileContent", input)

GetFileContentAnyListing ==
  /\ exec.step = "call"
  /\ \E ok \in BOOLEAN, data \in ContentResponses(Listings) : ExecuteGetFileContent(ok, data)

NextFiles ==
  \/ CallForFiles
  \/ InvokeFileTool
  \/ GetFileContentAnyListing
  \/ \E ok \in BOOLEAN : ExecuteCreateOrUpdateFile(ok)
  \/ Finish

SpecFiles == Init /\ [][NextFiles]_vars

\* ------------------------------------------------- actions: the chat route
\* `useRuntimeConfig().githubToken`, as the deployment configures it
ConfigToken == Str("ghp_b")

\* `const token = githubToken ?? configToken`
tokenOf(githubToken) == IF githubToken = undefined THEN ConfigToken ELSE githubToken

\* a request arrives: session, route parameter and body are read, and
\* `const githubTools = token ? createGithubTools({ token }) : {}`
BeginRequest(session, id, messages, githubToken) ==
  /\ req.step = "none"
  /\ pc = "idle"
  /\ LET token == tokenOf(githubToken)
     IN IF Truthy(token)
          THEN /\ clients < MaxClients
               /\ LET r == createGithubTools(token.name, undefined, undefined)
                  IN /\ registry' = r.value
                     /\ allowed' = r.allowed
               /\ pc' = "returned"
               /\ opts' = [token |-> token.name, requireApproval |-> undefined,
                           preset |-> undefined]
               /\ clients' = clients + 1
          ELSE /\ registry' = EmptyObject
               /\ UNCHANGED <<pc, opts, allowed, clients>>
  /\ req' = [step |-> "lookup", session |-> session, id |-> id, messages |-> messages,
             chat |-> undefined, title |-> undefined, error |-> undefined,
             onFinish |-> undefined, modelCalls |-> <<>>, writes |-> <<>>]
  /\ UNCHANGED <<remembered, db>>
  /\ UNCHANGED execVars

\* `const chat = await db.query.chats.findFirst(...)`, and
\* `if (!chat) throw createError({ statusCode: 404, statusMessage: 'Chat not found' })`
FindChat(order) ==
  /\ req.step = "lookup"
  /\ IF chatMatches(req.id, req.session)
       THEN /\ order \in RowOrders(req.id)
            /\ LET chat == chatWithMessages(req.id, order)
               IN req' = [req EXCEPT !.chat = chat,
                                     !.step = stepAfterLookup(chat, req.messages)]
       ELSE /\ order = <<>>
            /\ req' = [req EXCEPT !.step = "failed",
                                  !.error = [statusCode |-> 404,
                                             statusMessage |-> "Chat not found"]]
  /\ UNCHANGED <<pc, opts, registry, allowed, clients, remembered, db>>
  /\ UNCHANGED execVars

\* `const { text: title } = await generateText(...)`; a rejection fails the
\* request
GenerateTitle(ok, text) ==
  /\ req.step = "generateText"
  /\ req' = IF ok
              THEN [req EXCEPT !.step = "updateTitle", !.title = text,
                               !.modelCalls = Append(@, "generateText")]
              ELSE [req EXCEPT !.step = "failed",
                               !.error = [statusCode |-> 500,
                                          statusMessage |-> "generateText"],
                               !.modelCalls = Append(@, "generateText")]
  /\ UNCHANGED <<pc, opts, registry, allowed, clients, remembered, db>>
  /\ UNCHANGED execVars

\* `await db.update(schema.chats).set({ title }).where(eq(schema.chats.id, id))`
UpdateTitle ==
  /\ req.step = "updateTitle"
  /\ db' = [db EXCEPT !.chats[req.id].title = req.title]
  /\ req' = [req EXCEPT !.step = stepAfterTitle(req.messages),
                        !.writes = Append(@, "chats.update")]
  /\ UNCHANGED <<pc, opts, registry, allowed, clients, remembered>>
  /\ UNCHANGED execVars

\* `await db.insert(schema.messages).values({ chatId: id, role: 'user', parts })`
InsertUserMessage ==
  /\ req.step = "insertUser"
  /\ Len(db.messages) < MaxRows
  /\ db' = [db EXCEPT !.messages =
              Append(@, [chatId |-> req.id, role |-> "user",
                         parts |-> lastMessageOf(req.messages).parts])]
  /\ req' = [req EXCEPT !.step = "stream", !.writes = Append(@, "messages.insert")]
  /\ UNCHANGED <<pc, opts, registry, allowed, clients, remembered>>
  /\ UNCHANGED execVars

\* createUIMessageStream and createUIMessageStreamResponse: `execute` runs
\* and calls streamText with the tools object
StartStream ==
  /\ req.step = "stream"
  /\ req' = [req EXCEPT !.step = "streaming", !.modelCalls = Append(@, "streamText")]
  /\ UNCHANGED <<pc, opts, registry, allowed, clients, remembered, db>>
  /\ UNCHANGED execVars

\* the stream calls onFinish({ responseMessage, isContinuation }) with its own
\* flag
OnFinish(responseMessage, isContinuation) ==
  /\ req.step = "streaming"
  /\ isContinuation \/ Len(db.messages) < MaxRows
  /\ db' = [db EXCEPT !.messages = onFinishMessages(req.chat, responseMessage, isContinuation)]
  /\ req' = [req EXCEPT !.step = "finished",
                        !.onFinish = [responseMessage |-> responseMessage,
                                      isContinuation |-> isContinuation],
                        !.writes = IF db' = db THEN @
                                   ELSE Append(@, IF isContinuation THEN "messages.update"
                                                  ELSE "messages.insert")]
  /\ UNCHANGED <<pc, opts, registry, allowed, clients, remembered>>
  /\ UNCHANGED execVars

\* the response has been sent, or the error: the request and its tools
\* object are gone
EndRequest ==
  /\ req.step \in {"failed", "finished"}
  /\ req' = NoRequest
  /\ pc' = "idle"
  /\ opts' = NoCall
  /\ registry' = EmptyObject
  /\ UNCHANGED <<allowed, clients, remembered, db>>
  /\ UNCHANGED execVars

\* a request handled at the same time stores a message in the same chat
OtherRequestInserts(id, role, parts) ==
  /\ req.step \notin {"none", "failed", "finished"}
  /\ id = req.id
  /\ id \in DOMAIN db.chats
  /\ Len(db.messages) < MaxRows
  /\ db' = [db EXCEPT !.messages = Append(@, [chatId |-> id, role |-> role, parts |-> parts])]
  /\ UNCHANGED <<pc, opts, registry, allowed, clients, remembered, req>>
  /\ UNCHANGED execVars

\* --------------------------------------------------- inputs of the chat route
\* a signed-in user and an anonymous session
Sessions ==
  {[user |-> [id |-> Str("u1")], id |-> Str("s1")],
   [user |-> undefined, id |-> Str("s2")]}

\* the two chats and an id no chat has
ChatIds == {"c1", "c2", "c9"}

UserMessage == [role |-> "user", parts |-> "asked"]

AssistantMessage == [role |-> "assistant", parts |-> "shown"]

\* the `messages` of a request: none, a first question, a question after an
\* answer, and conversations that end with the assistant (an approval or a
\* regeneration), with and without a question before
Bodies ==
  {<<>>, <<UserMessage>>, <<UserMessage, AssistantMessage, UserMessage>>,
   <<UserMessage, AssistantMessage>>, <<AssistantMessage>>}

\* what the stream hands to onFinish
ResponseMessage == [role |-> "assistant", parts |-> "answered"]

BeginRequestAny ==
  /\ req.step = "none"
  /\ \E session \in Sessions, id \in ChatIds, messages \in Bodies :
       BeginRequest(session, id, messages, undefined)

FindChatAny ==
  /\ req.step = "lookup"
  /\ \E order \in RowOrders(req.id) \cup {<<>>} : FindChat(order)

NextChat ==
  \/ BeginRequestAny
  \/ FindChatAny
  \/ \E ok \in BOOLEAN : GenerateTitle(ok, Str("Repo help"))
  \/ UpdateTitle
  \/ InsertUserMessage
  \/ StartStream
  \/ \E isContinuation \in BOOLEAN : OnFinish(ResponseMessage, isContinuation)
  \/ EndRequest
  \/ \E id \in {"c1", "c2"} : OtherRequestInserts(id, "assistant", "other")

SpecChat == Init /\ [][NextChat]_vars

\* ------------------------------------------------------------------ claims
\* the enumerations the claims are stated over
WriteTools ==
  {"createOrUpdateFile", "createPullRequest", "mergePullRequest", "addPullRequestComment",
   "createIssue", "addIssueComment", "closeIssue"}

ReadOnlyTools ==
  {"getRepository", "listBranches", "getFileContent", "listPullRequests", "getPullRequest",
   "listIssues", "getIssue", "searchCode", "searchRepositories", "listCommits", "getCommit"}

KnownTools == WriteTools \cup ReadOnlyTools

Returned == pc = "returned"

HasFlag(t, b) ==
  /\ t \in DOMAIN registry
  /\ "needsApproval" \in DOMAIN registry[t]
  /\ registry[t].needsApproval = b

\* C1: called with requireApproval = b, a plain boolean, every write tool of
\* the returned registry has needsApproval = b, whichever tool it is.
C1_UniformApproval ==
  (Returned /\ opts.requireApproval.kind = "boolean") =>
    \A t \in WriteTools \cap DOMAIN registry : HasFlag(t, opts.requireApproval.flag)

C1_Witness ==
  /\ Returned
  /\ opts.requireApproval = Bool(FALSE)
  /\ \A t \in WriteTools : HasFlag(t, FALSE)

\* C2: called with a per-tool object, a write tool's flag is the object's
\* entry for it when there is one and true when there is none; with
\* { mergePullRequest: true, createIssue: false } and no preset the registry
\* has all 18 tools, createIssue false, mergePullRequest true, addIssueComment true.
C2_PerToolApproval ==
  (Returned /\ opts.requireApproval.kind = "object") =>
    /\ \A t \in WriteTools \cap DOMAIN registry :
         IF t \in DOMAIN opts.requireApproval.entries
           THEN HasFlag(t, opts.requireApproval.entries[t])
           ELSE HasFlag(t, TRUE)
    /\ (opts.requireApproval = ScenarioApproval /\ opts.preset = undefined) =>
         /\ DOMAIN registry = KnownTools
         /\ Cardinality(DOMAIN registry) = 18
         /\ HasFlag("createIssue", FALSE)
         /\ HasFlag("mergePullRequest", TRUE)
         /\ HasFlag("addIssueComment", TRUE)

C2_Witness ==
  /\ Returned
  /\ opts.requireApproval = ScenarioApproval
  /\ opts.preset = undefined
  /\ HasFlag("createIssue", FALSE)
  /\ HasFlag("addIssueComment", TRUE)

\* C3: called without requireApproval, every write tool of the returned
\* registry has needsApproval = true; and a write-tool factory called by the
\* caller without options gives a tool with needsApproval = true.
C3_ApprovalByDefault ==
  /\ (Returned /\ opts.requireApproval = undefined) =>
       \A t \in WriteTools \cap DOMAIN registry : HasFlag(t, TRUE)
  /\ (pc = "picked" /\ opts.factory \in WriteFactories /\ opts.options = undefined) =>
       HasFlag(opts.factory, TRUE)

C3_Witness ==
  /\ Returned
  /\ opts.requireApproval = undefined
  /\ \A t \in WriteTools : HasFlag(t, TRUE)

\* C4: in every returned registry each write tool that is present has exactly
\* one boolean approval flag and no read-only tool has an approval flag.
C4_FlagsOnWriteToolsOnly ==
  Returned =>
    /\ \A t \in WriteTools \cap DOMAIN registry :
         /\ "needsApproval" \in DOMAIN registry[t]
         /\ registry[t].needsApproval \in BOOLEAN
    /\ \A t \in ReadOnlyTools \cap DOMAIN registry :
         "needsApproval" \notin DOMAIN registry[t]

C4_Witness ==
  /\ Returned
  /\ opts.requireApproval.kind = "object"
  /\ DOMAIN registry = KnownTools
  /\ \A t \in ReadOnlyTools : "needsApproval" \notin DOMAIN registry[t]
  /\ \E t \in WriteTools : registry[t].needsApproval = FALSE

\* C5: with the preset omitted the registry's key set is exactly the 18 tool
\* names, the same key set as with preset 'maintainer'.
C5_NoPresetAllTools ==
  /\ (Returned /\ opts.preset = undefined) =>
       (DOMAIN registry = KnownTools /\ Cardinality(DOMAIN registry) = 18)
  /\ (Returned /\ opts.preset = Str("maintainer")) => DOMAIN registry = KnownTools

C5_Witness ==
  /\ Returned
  /\ opts.preset = undefined
  /\ Cardinality(DOMAIN registry) = 18

\* C6: with preset [P1, P2] the key set is the union of the key sets of the
\* registries built with P1 alone and with P2 alone, and [P2, P1] gives the
\* same keys and flags.
C6_PresetUnion ==
  (Returned /\ opts.preset.kind = "array" /\ Len(opts.preset.items) = 2) =>
    LET P1 == opts.preset.items[1]
        P2 == opts.preset.items[2]
        alone(P) == createGithubTools(opts.token, opts.requireApproval, Str(P)).value
        swapped == createGithubTools(opts.token, opts.requireApproval, Arr(<<P2, P1>>)).value
    IN /\ DOMAIN registry = DOMAIN alone(P1) \cup DOMAIN alone(P2)
       /\ DOMAIN registry = DOMAIN swapped
       /\ flagsOf(registry) = flagsOf(swapped)

C6_Witness ==
  /\ Returned
  /\ opts.preset = Arr(<<"code-review", "issue-triage">>)
  /\ "addPullRequestComment" \in DOMAIN registry
  /\ "closeIssue" \in DOMAIN registry
  /\ Cardinality(DOMAIN registry) = 15

\* C7: preset 'issue-triage' gives exactly the eight keys listIssues, getIssue,
\* createIssue, addIssueComment, closeIssue, getRepository, searchRepositories,
\* searchCode, for any approval configuration.
C7_IssueTriageKeys ==
  (pc \in {"returned", "threw"} /\ opts.preset = Str("issue-triage")) =>
    /\ Returned
    /\ DOMAIN registry =
         {"listIssues", "getIssue", "createIssue", "addIssueComment", "closeIssue",
          "getRepository", "searchRepositories", "searchCode"}

C7_Witness ==
  /\ Returned
  /\ opts.preset = Str("issue-triage")
  /\ opts.requireApproval = Bool(FALSE)
  /\ Cardinality(DOMAIN registry) = 8

\* C8: preset 'repo-explorer' gives all 11 read-only tools and no write tool,
\* whatever the approval configuration.
C8_RepoExplorerReadOnly ==
  (pc \in {"returned", "threw"} /\ opts.preset = Str("repo-explorer")) =>
    /\ Returned
    /\ ReadOnlyTools \subseteq DOMAIN registry
    /\ WriteTools \cap DOMAIN registry = {}

C8_Witness ==
  /\ Returned
  /\ opts.preset = Str("repo-explorer")
  /\ opts.requireApproval = Bool(FALSE)
  /\ Cardinality(DOMAIN registry) = 11

\* the presets named by a selector, and the union of their tables
selectedPresets(preset) ==
  IF preset.kind = "array" THEN Range(preset.items) ELSE {preset.name}

KnownSelector(preset) ==
  /\ preset.kind \in {"string", "array"}
  /\ selectedPresets(preset) \subseteq GithubToolPreset

presetUnion(preset) == UNION {Range(PRESET_TOOLS[p]) : p \in selectedPresets(preset)}

\* C9: with a known preset or a list of known presets (the empty list too)
\* the call does not throw and returns exactly the known tools of the preset
\* union: a subset of the 18 names, empty when the union is empty.
C9_FilterNeverFails ==
  (pc \in {"returned", "threw"} /\ KnownSelector(opts.preset)) =>
    /\ Returned
    /\ DOMAIN registry = KnownTools \cap presetUnion(opts.preset)
    /\ DOMAIN registry \subseteq KnownTools
    /\ presetUnion(opts.preset) = {} => DOMAIN registry = {}

C9_Witness ==
  /\ Returned
  /\ opts.preset = Arr(<<>>)
  /\ DOMAIN registry = {}

\* C10: a call with the same token, approval configuration and preset selector
\* as an earlier call returns the same key set and the same approval flag for
\* every write tool, whatever was called in between.
C10_SameArgumentsSameRegistry ==
  (Returned /\ remembered # NoCall /\ remembered.opts = opts) =>
    /\ DOMAIN registry = remembered.keys
    /\ flagsOf(registry) = remembered.flags

C10_Witness ==
  /\ Returned
  /\ remembered # NoCall
  /\ remembered.opts = opts
  /\ clients = 3
  /\ opts.preset = Str("issue-triage")
  /\ allowed # null

\* ---------------------------------------------------------- claims: execution
Executing == exec.step # "none"

\* the remote calls the execution in progress has issued so far
Issued == IF Executing THEN exec.issued ELSE <<>>

Apis(issued) == [i \in DOMAIN issued |-> issued[i].api]

\* execute stands before a remote call
AtRemoteCall == exec.step \in {"repos.get", "git.getRef", "git.createRef", "call"}

Finished == exec.step \in {"returned", "threw"}

Composes == clients' # clients

IssuesCall == Executing /\ exec'.step # "none" /\ Len(exec'.issued) > Len(exec.issued)

\* C11: composing a tools object issues no remote call and leaves the remote
\* alone, whatever the arguments and whether or not the composition throws; a
\* remote call is issued only by an execute function that was invoked, one
\* call per step
C11_NoRemoteCallWhileComposing ==
  [][/\ Composes => (Issued' = Issued /\ remote' = remote /\ exec' = exec)
     /\ (Issued' # Issued /\ Issued' # <<>>) =>
          (AtRemoteCall /\ ~Composes /\ Len(Issued') = Len(Issued) + 1)
     /\ (~Executing /\ exec' # exec) => (exec'.issued = <<>> /\ pc \in {"returned", "picked"})
    ]_vars

C11_Witness ==
  /\ pc = "returned"
  /\ clients = 1
  /\ Executing
  /\ exec.step = "returned"
  /\ Apis(exec.issued) = <<"repos.listBranches">>

\* C12: a call of createGithubTools constructs exactly one client, every tool
\* of the registry it returns holds that client, an execution uses the client
\* of the tool that was invoked for each of its requests, and no step of an
\* execution constructs a client
C12_OneClientPerCall ==
  [][/\ (pc = "idle" /\ pc' = "returned") =>
          /\ clients' = clients + 1
          /\ \A t \in DOMAIN registry' :
               registry'[t].octokit = [auth |-> opts'.token, id |-> clients']
     /\ (exec' # exec) => (clients' = clients /\ registry' = registry)
     /\ (~Executing /\ exec' # exec) =>
          \E t \in DOMAIN registry :
            exec'.octokit = registry[t].octokit /\ exec'.tool = registry[t].execute
     /\ (Executing /\ exec'.step # "none") =>
          /\ exec'.octokit = exec.octokit
          /\ \A i \in DOMAIN exec'.issued : exec'.issued[i].client = exec.octokit.id
    ]_vars

C12_Witness ==
  /\ pc = "returned"
  /\ clients = 2
  /\ Cardinality(DOMAIN registry) = 18
  /\ \A t \in DOMAIN registry : registry[t].octokit.id = 2
  /\ Executing
  /\ exec.step = "returned"
  /\ exec.octokit.id = 2
  /\ exec.issued[1].client = 2

FromOmitted == Executing /\ exec.tool = "createBranch" /\ exec.input.from = undefined

\* C13: createBranch without `from`: execute first awaits repos.get and keeps
\* the default branch it answers, then git.getRef for heads/<that branch> and
\* keeps the SHA it answers, and only then git.createRef, once, for
\* refs/heads/<branch> with that SHA
C13_DefaultBranchLookupOrder ==
  [][/\ (~Executing /\ exec'.step # "none" /\ exec'.tool = "createBranch"
           /\ exec'.input.from = undefined) =>
          (exec'.step = "repos.get" /\ exec'.issued = <<>>)
     /\ (FromOmitted /\ exec.step = "repos.get" /\ exec'.step = "git.getRef") =>
          /\ Apis(exec'.issued) = <<"repos.get">>
          /\ exec'.defaultBranch = remote.default_branch
     /\ (FromOmitted /\ exec.step = "git.getRef" /\ exec' # exec) =>
          /\ Apis(exec'.issued) = <<"repos.get", "git.getRef">>
          /\ exec'.issued[2].ref = HeadsPrefix \o exec.defaultBranch
          /\ exec'.step = "git.createRef" => exec'.sha = Text(remote.heads[exec.defaultBranch])
     /\ (FromOmitted /\ exec.step = "git.createRef" /\ exec' # exec) =>
          /\ Apis(exec'.issued) = <<"repos.get", "git.getRef", "git.createRef">>
          /\ exec'.issued[3].ref = RefsHeadsPrefix \o exec.input.branch
          /\ exec'.issued[3].sha = exec.sha.chars
     /\ (FromOmitted /\ IssuesCall /\ exec'.issued[Len(exec'.issued)].api = "git.createRef") =>
          exec.step = "git.createRef"
    ]_vars

C13_Witness ==
  /\ FromOmitted
  /\ exec.step = "returned"
  /\ Apis(exec.issued) = <<"repos.get", "git.getRef", "git.createRef">>
  /\ exec.issued[2].ref = HeadsPrefix \o BranchDev
  /\ exec.issued[3].sha = ShaB
  /\ remote.heads[BranchFeat] = ShaB

\* C14 as stated: every execution issues exactly one remote call, except
\* createBranch, whose execution issues at most two
C14_AtMostTwoCalls ==
  Executing =>
    IF exec.tool = "createBranch" THEN Len(exec.issued) <= 2
    ELSE /\ Len(exec.issued) <= 1
         /\ Finished => Len(exec.issued) = 1

\* C14 amended: every execution issues exactly one remote call, except
\* createBranch, whose execution issues one to three: git.createRef alone, or
\* after git.getRef, or after repos.get and git.getRef
C14_OneCallOrUpToThree ==
  Executing =>
    IF exec.tool = "createBranch"
      THEN /\ Len(exec.issued) <= 3
           /\ Finished => Len(exec.issued) >= 1
           /\ exec.step = "returned" =>
                Apis(exec.issued) \in
                  {<<"git.createRef">>, <<"git.getRef", "git.createRef">>,
                   <<"repos.get", "git.getRef", "git.createRef">>}
    ELSE /\ Len(exec.issued) <= 1
         /\ Finished => Len(exec.issued) = 1

C14_Witness ==
  /\ Executing
  /\ exec.tool = "createBranch"
  /\ exec.step = "returned"
  /\ Len(exec.issued) = 3

\* C15: whatever another actor does to the default branch or to the source
\* branch's head after a lookup, execute keeps what the lookup answered:
\* git.getRef is for the default branch repos.get answered, git.createRef is
\* issued once with the SHA git.getRef answered, no lookup is repeated, and a
\* created branch points at that SHA
C15_CreateRefUsesLookedUpSha ==
  [][(Executing /\ exec.tool = "createBranch") =>
       /\ (exec.step = "git.getRef" /\ exec.input.from = undefined /\ exec' # exec) =>
            exec'.issued[Len(exec'.issued)].ref = HeadsPrefix \o exec.defaultBranch
       /\ (exec.step = "git.createRef" /\ exec' # exec) =>
            /\ exec'.step \in {"returned", "threw"}
            /\ Len(exec'.issued) = Len(exec.issued) + 1
            /\ exec'.issued[Len(exec'.issued)].api = "git.createRef"
            /\ exec'.issued[Len(exec'.issued)].sha = exec.sha.chars
            /\ exec'.step = "returned" => remote'.heads[exec.input.branch] = exec.sha.chars
       /\ (exec'.step # "none") =>
            \A i, j \in DOMAIN exec'.issued : i # j => exec'.issued[i].api # exec'.issued[j].api
    ]_vars

C15_Witness ==
  /\ FromOmitted
  /\ exec.step = "returned"
  /\ exec.defaultBranch = BranchMain
  /\ remote.default_branch = BranchDev
  /\ exec.sha = Text(ShaA)
  /\ remote.heads[BranchMain] = ShaB
  /\ exec.issued[3].sha = ShaA
  /\ remote.heads[BranchFeat] = ShaA

\* C16: a remote call is attempted at most once per execution; an execution
\* that failed reports the failure of the last call it issued and issues no
\* further call; a ref lookup the remote cannot answer fails the execution;
\* after a failed repos.get or git.getRef no git.createRef is issued and the
\* execution has created no branch
C16_FailurePropagatedOnce ==
  [][/\ (Executing /\ exec'.step # "none") =>
          /\ \A i, j \in DOMAIN exec'.issued :
               i # j => exec'.issued[i].api # exec'.issued[j].api
          /\ exec'.step = "threw" =>
               /\ exec'.result = [error |-> exec'.issued[Len(exec'.issued)].api]
               /\ (exec' # exec /\ exec.step # "git.createRef") =>
                    /\ remote' = remote
                    /\ \A i \in DOMAIN exec'.issued : exec'.issued[i].api # "git.createRef"
     /\ (Executing /\ exec.step = "threw") => (exec' = exec \/ exec' = NoExec)
     /\ (Executing /\ exec.step = "git.getRef" /\ exec' # exec
           /\ ~refExists(createBranchLookupRef(exec.input.from, exec.defaultBranch))) =>
          exec'.step = "threw"
     /\ (Executing /\ exec.step = "git.createRef" /\ exec' # exec
           /\ exec.input.branch \in DOMAIN remote.heads) =>
          (exec'.step = "threw" /\ remote' = remote)
    ]_vars

C16_Witness ==
  /\ Executing
  /\ exec.tool = "createBranch"
  /\ exec.step = "threw"
  /\ exec.input.from = Text(BranchNope)
  /\ Apis(exec.issued) = <<"git.getRef">>
  /\ exec.result = [error |-> "git.getRef"]
  /\ BranchFeat \notin DOMAIN remote.heads

\* forty characters, each a hexadecimal digit of either case
IsFortyHex(from) ==
  /\ from # undefined
  /\ Len(from.chars) = 40
  /\ \A i \in 1..40 :
       from.chars[i] \in {"0", "1", "2", "3", "4", "5", "6", "7", "8", "9", "a", "b", "c",
                          "d", "e", "f", "A", "B", "C", "D", "E", "F"}

IsEmptyOrOmitted(from) == from = undefined \/ from.chars = <<>>

\* C19: createBranch with `from` of forty hexadecimal digits issues
\* git.createRef only, with `from` as the SHA; with any other non-empty `from`
\* it issues git.getRef for heads/<from> first and never repos.get; repos.get
\* is issued only when `from` is omitted or empty
C19_LookupsByFormOfFrom ==
  (Executing /\ exec.tool = "createBranch") =>
    LET from == exec.input.from
        apis == Apis(exec.issued)
    IN /\ IsFortyHex(from) =>
            /\ \A i \in DOMAIN apis : apis[i] = "git.createRef"
            /\ exec.step \in {"git.createRef", "returned", "threw"}
            /\ Finished => (apis = <<"git.createRef">> /\ exec.issued[1].sha = from.chars)
       /\ (~IsFortyHex(from) /\ ~IsEmptyOrOmitted(from)) =>
            /\ \A i \in DOMAIN apis : apis[i] # "repos.get"
            /\ Finished =>
                 /\ apis[1] = "git.getRef"
                 /\ exec.issued[1].ref = HeadsPrefix \o from.chars
                 /\ Cardinality({i \in DOMAIN apis : apis[i] = "git.getRef"}) = 1
       /\ (\E i \in DOMAIN apis : apis[i] = "repos.get") => IsEmptyOrOmitted(from)
       /\ (IsEmptyOrOmitted(from) /\ Finished) => apis[1] = "repos.get"

C19_Witness ==
  /\ Executing
  /\ exec.tool = "createBranch"
  /\ exec.step = "returned"
  /\ exec.input.from = Text(Rep("A", ShaLength))
  /\ Apis(exec.issued) = <<"git.createRef">>
  /\ remote.heads[BranchFeat] = Rep("A", ShaLength)

\* ------------------------------------------------------------- claims: files
ReturnedContent == Executing /\ exec.tool = "getFileContent" /\ exec.step = "returned"

\* what createOrUpdateFile transmits as the content of a file with text c
Transmitted(c) == createOrUpdateFileParams([path |-> FilePath, content |-> c]).content

\* the remote answered with a regular file holding exactly what was
\* transmitted for the text c
AnsweredWith(c) ==
  /\ exec.response.kind = "node"
  /\ exec.response.node.type = "file"
  /\ exec.response.node.content = Transmitted(c)

\* every surrogate code unit of c is half of a pair
WellFormed(c) ==
  \A i \in DOMAIN c :
    /\ IsHighSurrogate(c[i]) => (i < Len(c) /\ IsLowSurrogate(c[i + 1]))
    /\ IsLowSurrogate(c[i]) => (i > 1 /\ IsHighSurrogate(c[i - 1]))

SameOrderAsResponse ==
  exec.response.kind = "array" =>
    /\ exec.result.type = "directory"
    /\ Len(exec.result.entries) = Len(exec.response.items)
    /\ \A i \in DOMAIN exec.response.items :
         /\ exec.result.entries[i].name = exec.response.items[i].name
         /\ exec.result.entries[i].path = exec.response.items[i].path

\* C17 as stated: for every text c, a file answered with the content
\* createOrUpdateFile transmits for c is returned with type 'file' and content
\* c; a directory is returned with its entries in the order of the response
C17_RoundTripEveryText ==
  ReturnedContent =>
    /\ \A c \in Contents :
         AnsweredWith(c) => (exec.result.type = "file" /\ exec.result.content = c)
    /\ SameOrderAsResponse

\* C17 amended: the same for every text c without an unpaired surrogate code
\* unit
C17_RoundTripWellFormedText ==
  ReturnedContent =>
    /\ \A c \in Contents :
         (WellFormed(c) /\ AnsweredWith(c)) =>
           (exec.result.type = "file" /\ exec.result.content = c)
    /\ SameOrderAsResponse

C17_Witness ==
  /\ ReturnedContent
  /\ AnsweredWith(<<55357, 56832>>)
  /\ remote.file.content = Transmitted(<<55357, 56832>>)
  /\ exec.result.content = <<55357, 56832>>

\* C18: what getFileContent returns has one of three shapes, by the response:
\* for a listing, type 'directory' and one entry of exactly name, type and
\* path per element; for a node that is not a file, exactly its type and its
\* path; for a file, exactly type 'file', path, sha, size and the content
\* whose base64 encoding the response carries
C18_ThreeResultShapes ==
  ReturnedContent =>
    LET data == exec.response
        result == exec.result
    IN IF data.kind = "array"
         THEN /\ DOMAIN result = {"type", "entries"}
              /\ result.type = "directory"
              /\ Len(result.entries) = Len(data.items)
              /\ \A i \in DOMAIN data.items :
                   result.entries[i] =
                     [name |-> data.items[i].name, type |-> data.items[i].type,
                      path |-> data.items[i].path]
       ELSE IF data.node.type # "file"
         THEN result = [type |-> data.node.type, path |-> data.node.path]
       ELSE /\ DOMAIN result = {"type", "path", "sha", "size", "content"}
            /\ result.type = "file"
            /\ result.path = data.node.path
            /\ result.sha = data.node.sha
            /\ result.size = data.node.size
            /\ base64Encode(utf8Encode(result.content)) = data.node.content

C18_Witness ==
  /\ ReturnedContent
  /\ exec.response = otherNode("symlink")
  /\ exec.result = [type |-> "symlink", path |-> "vendor"]

\* ------------------------------------------- claims: presets and approval
\* a per-tool mapping with the entry of one write tool set, cleared or removed
EntryChanged(m, u) ==
  {(u :> TRUE) @@ m, (u :> FALSE) @@ m, [x \in DOMAIN m \ {u} |-> m[x]]}

WriteToolsOf(reg) == DOMAIN reg \cap GithubWriteToolName

\* C20: a write tool of a registry built with an approval config and a preset
\* selector carries the flag it carries in the registry built with the same
\* config and no preset; and with a per-tool mapping, changing the entry of
\* one write tool changes the flag of no other write tool of the registry
C20_PresetAndApprovalIndependent ==
  Returned =>
    /\ LET unfiltered == createGithubTools(opts.token, opts.requireApproval, undefined).value
       IN \A t \in WriteToolsOf(registry) :
            registry[t].needsApproval = unfiltered[t].needsApproval
    /\ (opts.requireApproval # undefined /\ opts.requireApproval.kind = "object") =>
         \A u \in GithubWriteToolName :
           \A m \in EntryChanged(opts.requireApproval.entries, u) :
             LET other == createGithubTools(opts.token, Obj(m), opts.preset).value
             IN \A t \in WriteToolsOf(registry) \ {u} :
                  other[t].needsApproval = registry[t].needsApproval

C20_Witness ==
  /\ Returned
  /\ opts.requireApproval = ScenarioApproval
  /\ opts.preset = Str("issue-triage")
  /\ "mergePullRequest" \notin DOMAIN registry
  /\ registry["createIssue"].needsApproval = FALSE
  /\ registry["closeIssue"].needsApproval = TRUE

\* ------------------------------------------------------ claims: chat route
Handling == req.step # "none"

\* the chat with this id belongs to the user of the session: the signed-in
\* user, or the session itself when nobody is signed in
BelongsToSession(id, session) ==
  /\ id \in DOMAIN db.chats
  /\ db.chats[id].userId = (IF session.user = undefined THEN session.id ELSE session.user.id)

NotFound == [statusCode |-> 404, statusMessage |-> "Chat not found"]

\* C21: a request for a chat id that no chat of the session's user has fails
\* at the lookup with 404 'Chat not found'; up to and including that step the
\* request has called no model and written nothing (no title, no message row,
\* no stream), and after it the request does nothing but end
C21_NotFoundBeforeAnyEffect ==
  [][/\ (Handling /\ req.step = "lookup") => (req.modelCalls = <<>> /\ req.writes = <<>>)
     /\ (Handling /\ req.step = "lookup" /\ req' # req
           /\ ~BelongsToSession(req.id, req.session)) =>
          /\ req'.step = "failed"
          /\ req'.error = NotFound
          /\ req'.modelCalls = <<>>
          /\ req'.writes = <<>>
          /\ req'.title = undefined
          /\ db' = db
     /\ (Handling /\ req.step = "failed" /\ req.error = NotFound) =>
          /\ db' = db
          /\ req' = req \/ req' = NoRequest
    ]_vars

C21_Witness ==
  /\ Handling
  /\ req.step = "failed"
  /\ req.error = NotFound
  /\ req.id = "c2"
  /\ req.session.user # undefined
  /\ "c2" \in DOMAIN db.chats
  /\ req.messages = <<UserMessage>>
  /\ db.chats["c1"].title = null
  /\ pc = "returned"

\* the position in the loaded messages of the last one of the assistant
AssistantsLoaded == {k \in DOMAIN req.chat.messages : req.chat.messages[k].role = "assistant"}

LastAssistantLoaded ==
  req.chat.messages[CHOOSE k \in AssistantsLoaded : \A j \in AssistantsLoaded : j <= k]

====
